---- MODULE Spec2Model ----
(***************************************************************************)
(* Scope-disclosure excerpt extraction and labelling (create_dataset.py). *)
(* Texts are sequences of one-character strings, so that lengths, slices, *)
(* lowercasing and regular-expression matches are those of the source.    *)
(***************************************************************************)
EXTENDS Integers, Sequences, FiniteSets, TLC

VARIABLES
    metadata,      \* the rows of the metadata table, in order
    idx,           \* 0-based position of create_dataset's loop in metadata
    dataset_rows,  \* the rows collected so far
    emitted,       \* per collected row: the report it came from and excerpt_data
    pc,            \* "loop" while create_dataset iterates, "done" once it
                   \* returned, "raised" once an exception left it, "saved"
                   \* after save_dataset, "failed" after main found no data
    df,            \* the table create_dataset returned
    warned,        \* the single-class warning was printed
    probe,         \* a text handed to determine_label_for_excerpt, and what it returned
    metadata_found,\* os.path.exists(metadata_csv)
    dataset_csv    \* the output file: <<>> while it is not written, <<rows>> once it is

vars == <<metadata, idx, dataset_rows, emitted, pc, df, warned, probe,
          metadata_found, dataset_csv>>

-----------------------------------------------------------------------------
(* Characters and strings                                                  *)

\* A string literal as the sequence of its characters.
Chars(str) == [i \in 1..Len(str) |-> SubSeq(str, i, i)]

\* \s of the re module, on the characters the model's texts use.
Whitespace == {" ", "\t", "\n", "\r", "\f"}

\* [0-9] and \d.
Digits == {"0", "1", "2", "3", "4", "5", "6", "7", "8", "9"}

UpperLetters == {"A", "B", "C", "D", "E", "F", "G", "H", "I", "J", "K", "L", "M",
                 "N", "O", "P", "Q", "R", "S", "T", "U", "V", "W", "X", "Y", "Z"}

LowerLetters == {"a", "b", "c", "d", "e", "f", "g", "h", "i", "j", "k", "l", "m",
                 "n", "o", "p", "q", "r", "s", "t", "u", "v", "w", "x", "y", "z"}

\* \w of the re module: what \b calls a word character.
WordChars == UpperLetters \cup LowerLetters \cup Digits \cup {"_"}

UpperSeq == Chars("ABCDEFGHIJKLMNOPQRSTUVWXYZ")

LowerSeq == Chars("abcdefghijklmnopqrstuvwxyz")

\* str.lower() on one character.
LowerChar(c) ==
    IF c \in UpperLetters
    THEN LowerSeq[CHOOSE k \in 1..Len(UpperSeq) : UpperSeq[k] = c]
    ELSE c

\* str.lower().
lower(s) == [i \in 1..Len(s) |-> LowerChar(s[i])]

\* str.strip(): leading and trailing whitespace removed.
strip(s) ==
    IF \A i \in 1..Len(s) : s[i] \in Whitespace
    THEN <<>>
    ELSE LET first == CHOOSE i \in 1..Len(s) :
                          /\ s[i] \notin Whitespace
                          /\ \A j \in 1..(i - 1) : s[j] \in Whitespace
             last == CHOOSE i \in 1..Len(s) :
                          /\ s[i] \notin Whitespace
                          /\ \A j \in (i + 1)..Len(s) : s[j] \in Whitespace
         IN  SubSeq(s, first, last)

\* Prefix with the slice forgotten: the whole string.
PrefixUncut(s, n) == s

\* Prefix cutting at a tenth of the length asked for.
PrefixTenth(s, n) == SubSeq(s, 1, IF Len(s) < n \div 10 THEN Len(s) ELSE n \div 10)

\* s[:n].
Prefix(s, n) == SubSeq(s, 1, IF Len(s) < n THEN Len(s) ELSE n)

\* `w in s` for strings: w occurs in s as a substring.
Contains(s, w) ==
    \E p \in 0..(Len(s) - Len(w)) : \A k \in 1..Len(w) : s[p + k] = w[k]

\* str.split('\n'): the pieces between consecutive newlines (always >= 1).
split(text) ==
    LET nl == {i \in 1..Len(text) : text[i] = "\n"}
        cut(k) == IF k = 0 THEN 0
                  ELSE IF k = Cardinality(nl) + 1 THEN Len(text) + 1
                  ELSE CHOOSE p \in nl : Cardinality({q \in nl : q < p}) = k - 1
    IN  [k \in 1..(Cardinality(nl) + 1) |->
            SubSeq(text, cut(k - 1) + 1, cut(k) - 1)]

\* ' '.join(lines[from:to]) with 0-based from (inclusive) and to (exclusive).
RECURSIVE join(_, _, _)
join(lines, from, to) ==
    IF from >= to THEN <<>>
    ELSE IF from + 1 = to THEN lines[to]
    ELSE join(lines, from, to - 1) \o <<" ">> \o lines[to]

-----------------------------------------------------------------------------
(* Regular expressions: re.search as the set of positions a match can end  *)

Lit(str) == [t |-> "lit", w |-> Chars(str)]
Cls(set) == [t |-> "cls", neg |-> FALSE, set |-> set]
Dot == [t |-> "cls", neg |-> TRUE, set |-> {"\n"}]
Star(c) == [t |-> "star", c |-> c]
Cat(rs) == [t |-> "cat", rs |-> rs]
Alt(rs) == [t |-> "alt", rs |-> rs]
Opt(r) == [t |-> "opt", r |-> r]
Plus(c) == Cat(<<c, Star(c)>>)
WordBoundary == [t |-> "wb"]
WS == Cls(Whitespace)
Digit == Cls(Digits)

InClass(ch, c) == (ch \in c.set) # c.neg

\* The end of the longest run of characters of class c that starts after p.
RunEnd(s, c, p) ==
    CHOOSE q \in p..Len(s) :
        /\ q = Len(s) \/ ~InClass(s[q + 1], c)
        /\ \A i \in (p + 1)..q : InClass(s[i], c)

\* \b at position p (between s[p] and s[p+1]).
AtWordBoundary(s, p) ==
    (p >= 1 /\ s[p] \in WordChars) # (p < Len(s) /\ s[p + 1] \in WordChars)

\* The positions where a match of r that starts at a position of S can end.
RECURSIVE Ends(_, _, _)
Ends(r, s, S) ==
    IF S = {} THEN {}
    ELSE CASE r.t = "lit" ->
                {p + Len(r.w) :
                    p \in {x \in S : /\ x + Len(r.w) <= Len(s)
                                     /\ \A k \in 1..Len(r.w) : s[x + k] = r.w[k]}}
           [] r.t = "cls" ->
                {p + 1 : p \in {x \in S : x < Len(s) /\ InClass(s[x + 1], r)}}
           [] r.t = "star" ->
                \* the run from the least start, then the starts beyond that run
                LET m == CHOOSE x \in S : \A y \in S : x <= y
                    e == RunEnd(s, r.c, m)
                IN  (m..e) \cup Ends(r, s, {p \in S : p > e})
           [] r.t = "cat" ->
                IF r.rs = <<>> THEN S
                ELSE Ends(Cat(Tail(r.rs)), s, Ends(Head(r.rs), s, S))
           [] r.t = "alt" ->
                UNION {Ends(r.rs[k], s, S) : k \in 1..Len(r.rs)}
           [] r.t = "opt" ->
                S \cup Ends(r.r, s, S)
           [] r.t = "wb" ->
                {p \in S : AtWordBoundary(s, p)}

\* bool(re.search(pattern, s)).
search(pattern, s) == Ends(pattern, s, 0..Len(s)) # {}

-----------------------------------------------------------------------------
(* The patterns of DatasetCreator                                          *)

\* The fragment scope\s*3 that most label patterns share.
Scope3 == Cat(<<Lit("scope"), Star(WS), Lit("3")>>)

\* emissions?
Emissions == Cat(<<Lit("emission"), Opt(Lit("s"))>>)

\* (?:\s+emissions?|\s+ghg|\b|\s*[,&-]) : what must follow the scope numeral.
ScopeTrailer ==
    Alt(<<Cat(<<Plus(WS), Emissions>>),
          Cat(<<Plus(WS), Lit("ghg")>>),
          WordBoundary,
          Cat(<<Star(WS), Cls({",", "&", "-"})>>)>>)

\* \d+[,\d]*\s*(?:tonnes?|tco2e?|mtco2e?|kt|mt)
Quantity ==
    Cat(<<Plus(Digit), Star(Cls(Digits \cup {","})), Star(WS),
          Alt(<<Cat(<<Lit("tonne"), Opt(Lit("s"))>>),
                Cat(<<Lit("tco2"), Opt(Lit("e"))>>),
                Cat(<<Lit("mtco2"), Opt(Lit("e"))>>),
                Lit("kt"),
                Lit("mt")>>)>>)

\* self.scope_patterns: [1I], [2II] and [3III] are the classes {1,I}, {2,I}, {3,I}.
scope_patterns ==
    [scope_1 |-> Cat(<<WordBoundary, Lit("scope"), Star(WS), Cls({"1", "I"}), ScopeTrailer>>),
     scope_2 |-> Cat(<<WordBoundary, Lit("scope"), Star(WS), Cls({"2", "I"}), ScopeTrailer>>),
     scope_3 |-> Cat(<<WordBoundary, Lit("scope"), Star(WS), Cls({"3", "I"}), ScopeTrailer>>)]

\* reporting_phrases, in the order of the source list.
reporting_phrases ==
    << Cat(<<Lit("report"), Opt(Alt(<<Lit("ed"), Lit("s"), Lit("ing")>>)), Plus(WS),
             Opt(Cat(<<Lit("our"), Plus(WS)>>)), Scope3>>),
       Cat(<<Scope3, Plus(WS), Emissions, Plus(WS),
             Alt(<<Lit("are"), Lit("were"), Cat(<<Lit("totale"), Opt(Lit("d"))>>),
                   Cat(<<Lit("amount"), Opt(Lit("ed"))>>)>>)>>),
       Cat(<<Scope3, Plus(WS), Emissions, Plus(WS),
             Opt(Alt(<<Lit("of"), Lit(":")>>)), Star(WS), Digit>>),
       Cat(<<Alt(<<Lit("measured"), Lit("calculated"),
                   Cat(<<Lit("disclose"), Opt(Lit("d"))>>),
                   Cat(<<Lit("assess"), Opt(Lit("ed"))>>),
                   Cat(<<Lit("monitor"), Opt(Lit("ed"))>>)>>),
             Plus(WS), Opt(Cat(<<Lit("our"), Plus(WS)>>)), Scope3>>),
       Cat(<<Lit("scope"), Star(WS), Cls({"1", "I"}), Opt(Lit(",")), Star(WS),
             Cls({"2", "I"}), Opt(Lit(",")), Star(WS), Alt(<<Lit("and"), Lit("&")>>),
             Star(WS), Cls({"3", "I"})>>),
       Cat(<<Lit("scope"), Star(WS), Cls({"1", "I"}), Opt(Lit(",")), Star(WS),
             Cls({"2", "I"}), Star(WS), Alt(<<Lit("and"), Lit("&")>>),
             Star(WS), Cls({"3", "I"}), Plus(WS), Emissions>>),
       Cat(<<Lit("all"), Plus(WS), Lit("three"), Plus(WS), Lit("scope"), Opt(Lit("s"))>>),
       Cat(<<Lit("scope"), Opt(Lit("s")), Star(WS), Cls({"1", "I"}), Cls({"-", ","}),
             Cls({"3", "I"})>>),
       Cat(<<Scope3, Star(Dot), Quantity>>),
       Cat(<<Quantity, Star(Dot), Scope3>>),
       Cat(<<Scope3, Star(Dot), Lit("carbon")>>),
       Cat(<<Lit("total"), Star(Dot), Scope3, Star(Dot), Emissions, Star(Dot), Plus(Digit)>>),
       Cat(<<Scope3, Star(Dot), Lit("total"), Star(Dot), Plus(Digit)>>),
       Cat(<<Scope3, Star(Dot), Lit("footprint")>>),
       Cat(<<Scope3, Star(Dot), Lit("inventory")>>),
       Cat(<<Scope3, Star(Dot), Opt(Cat(<<Emissions, Plus(WS)>>)), Lit("data")>>),
       Cat(<<Scope3, Star(Dot), Lit("metric"), Opt(Lit("s"))>>),
       Cat(<<Scope3, Star(Dot), Lit("performance")>>),
       Cat(<<Scope3, Star(Dot), Lit("result"), Opt(Lit("s"))>>),
       Cat(<<Scope3, Plus(WS), Lit("category")>>),
       Cat(<<Scope3, Plus(WS), Emissions, Plus(WS), Lit("table")>>),
       Cat(<<Lit("ghg"), Star(Dot), Scope3>>),
       Cat(<<Scope3, Star(Dot), Lit("ghg")>>) >>

\* future_phrases, in the order of the source list.
future_phrases ==
    << Cat(<<Alt(<<Lit("will"), Lit("plan"), Lit("intend"), Lit("aim"), Lit("target"),
                   Lit("goal"), Lit("future"), Lit("upcoming"), Lit("next year")>>),
             Star(Dot), Scope3>>),
       Cat(<<Scope3, Star(Dot), Opt(Cat(<<Lit("in"), Plus(WS)>>)),
             Alt(<<Cat(<<Lit("202"), Cls({"6", "7", "8", "9"})>>),
                   Cat(<<Lit("203"), Digit>>)>>)>>),
       Cat(<<Scope3, Star(Dot), Alt(<<Lit("by"), Lit("until")>>), Plus(WS),
             Lit("202"), Cls({"6", "7", "8", "9"})>>),
       Cat(<<Lit("begin"), Star(Dot), Lit("report"), Star(Dot), Scope3>>),
       Cat(<<Lit("start"), Star(Dot), Scope3>>),
       Cat(<<Lit("working"), Plus(WS), Alt(<<Lit("on"), Lit("toward")>>), Star(Dot), Scope3>>),
       Cat(<<Lit("develop"), Star(Dot), Scope3>>),
       Cat(<<Lit("currently"), Plus(WS), Lit("do"), Plus(WS), Lit("not"), Star(Dot), Scope3>>),
       Cat(<<Opt(Cat(<<Lit("in"), Plus(WS), Lit("the"), Plus(WS)>>)), Lit("process"),
             Plus(WS), Lit("of"), Plus(WS), Lit("calculating"), Star(Dot), Scope3>>),
       Cat(<<Lit("to"), Plus(WS), Lit("calculate"), Star(Dot), Scope3>>),
       Cat(<<Lit("not"), Plus(WS), Lit("yet"), Star(Dot), Scope3>>) >>

\* any(re.search(pattern, s) for pattern in patterns).
any_search(patterns, s) == \E k \in 1..Len(patterns) : search(patterns[k], s)

\* is_reporting and is_future of determine_label_for_excerpt, on lowercased text.
is_reporting(text_lower) == any_search(reporting_phrases, text_lower)

is_future(text_lower) == any_search(future_phrases, text_lower)

\* determine_label_for_excerpt without the early return on a missing Scope 3.
determine_label_unguarded(text) ==
    LET text_lower == lower(text)
    IN  IF is_reporting(text_lower) /\ ~is_future(text_lower) THEN 1 ELSE 0

\* determine_label_for_excerpt without the future-plan test.
determine_label_ignoring_future(text) ==
    LET text_lower == lower(text)
        has_scope_3 == search(scope_patterns.scope_3, text_lower)
    IN  IF ~has_scope_3 THEN 0
        ELSE IF is_reporting(text_lower) THEN 1
        ELSE 0

\* determine_label_for_excerpt without the reporting-evidence test.
determine_label_ignoring_reporting(text) ==
    LET text_lower == lower(text)
    IN  IF ~search(scope_patterns.scope_3, text_lower) THEN 0
        ELSE IF ~is_future(text_lower) THEN 1 ELSE 0

\* determine_label_for_excerpt matching the text as written, not lowercased.
determine_label_case_sensitive(text) ==
    LET has_scope_3 == search(scope_patterns.scope_3, text)
    IN  IF ~has_scope_3 THEN 0
        ELSE IF is_reporting(text) /\ ~is_future(text) THEN 1
        ELSE 0

\* DatasetCreator.determine_label_for_excerpt.
determine_label_for_excerpt(text) ==
    LET text_lower == lower(text)
        has_scope_3 == search(scope_patterns.scope_3, text_lower)
    IN  IF ~has_scope_3 THEN 0
        ELSE IF is_reporting(text_lower) /\ ~is_future(text_lower) THEN 1
        ELSE 0

-----------------------------------------------------------------------------
(* find_scope_excerpts and _find_generic_excerpt                           *)

\* Lines of context taken before the anchor line: max(0, idx - 3).
ContextBefore == 3

\* End of the context, exclusive: min(len(lines), idx + 4).
ContextEnd == 4

\* A paragraph shorter than this after strip() is skipped.
MinParagraphLen == 100

\* excerpt = paragraph.strip()[:500].
MaxExcerptLen == 500

\* An excerpt is added only if len(excerpt) > 50.
MinExcerptLen == 50

\* Two excerpts are duplicates when their first 200 characters are equal.
DedupPrefixLen == 200

\* excerpts[:3] in create_dataset.
MaxExcerptsPerReport == 3

\* A generic paragraph qualifies only if len(paragraph.strip()) > 100.
GenericMinLen == 100

\* The keywords of _find_generic_excerpt.
GenericKeywords ==
    {Chars("emission"), Chars("carbon"), Chars("ghg"), Chars("greenhouse gas"),
     Chars("climate")}

Max(a, b) == IF a > b THEN a ELSE b
Min(a, b) == IF a < b THEN a ELSE b

\* Paragraph with two lines of context on each side instead of three.
ParagraphNarrow(lines, i) ==
    join(lines, Max(0, i - 2), Min(Len(lines), i + 3))

\* paragraph = ' '.join(lines[start_idx:end_idx]) for the anchor line idx (0-based).
Paragraph(lines, i) ==
    join(lines, Max(0, i - ContextBefore), Min(Len(lines), i + ContextEnd))

\* is_duplicate comparing whole excerpts instead of their first 200 characters.
is_duplicate_whole(excerpt, excerpts) ==
    \E k \in 1..Len(excerpts) : excerpt = excerpts[k].text

\* is_duplicate that finds no excerpt a duplicate.
is_duplicate_never(excerpt, excerpts) == FALSE

\* is_duplicate comparing the first 400 characters instead of the first 200.
is_duplicate_long_prefix(excerpt, excerpts) ==
    \E k \in 1..Len(excerpts) :
        Prefix(excerpt, 2 * DedupPrefixLen) = Prefix(excerpts[k].text, 2 * DedupPrefixLen)

\* is_duplicate: the first 200 characters equal those of an excerpt already kept.
is_duplicate(excerpt, excerpts) ==
    \E k \in 1..Len(excerpts) :
        Prefix(excerpt, DedupPrefixLen) = Prefix(excerpts[k].text, DedupPrefixLen)

\* ScanLine without the test for Scope 1 or Scope 2.
ScanLineUngated(lines, i, excerpts) ==
    IF ~Contains(lower(lines[i + 1]), Chars("scope")) THEN excerpts
    ELSE LET paragraph == Paragraph(lines, i)
             para_lower == lower(paragraph)
         IN  IF Len(strip(paragraph)) < MinParagraphLen THEN excerpts
             ELSE LET excerpt == Prefix(strip(paragraph), MaxExcerptLen)
                  IN  IF Len(excerpt) > MinExcerptLen
                         /\ ~is_duplicate(excerpt, excerpts)
                      THEN Append(excerpts,
                                  [text |-> excerpt,
                                   label |-> determine_label_for_excerpt(paragraph),
                                   has_scope_1 |-> search(scope_patterns.scope_1, para_lower),
                                   has_scope_2 |-> search(scope_patterns.scope_2, para_lower),
                                   has_scope_3 |-> search(scope_patterns.scope_3, para_lower)])
                      ELSE excerpts

\* ScanLine with the label computed from the excerpt cut to 500 characters.
ScanLineLabelFromExcerpt(lines, i, excerpts) ==
    IF ~Contains(lower(lines[i + 1]), Chars("scope")) THEN excerpts
    ELSE LET paragraph == Paragraph(lines, i)
             para_lower == lower(paragraph)
         IN  IF Len(strip(paragraph)) < MinParagraphLen THEN excerpts
             ELSE LET has_scope_1 == search(scope_patterns.scope_1, para_lower)
                      has_scope_2 == search(scope_patterns.scope_2, para_lower)
                      has_scope_3 == search(scope_patterns.scope_3, para_lower)
                  IN  IF ~(has_scope_1 \/ has_scope_2) THEN excerpts
                      ELSE LET excerpt == Prefix(strip(paragraph), MaxExcerptLen)
                               label == determine_label_for_excerpt(excerpt)
                           IN  IF Len(excerpt) > MinExcerptLen
                                  /\ ~is_duplicate(excerpt, excerpts)
                               THEN Append(excerpts,
                                           [text |-> excerpt,
                                            label |-> label,
                                            has_scope_1 |-> has_scope_1,
                                            has_scope_2 |-> has_scope_2,
                                            has_scope_3 |-> has_scope_3])
                               ELSE excerpts

\* ScanLine requiring both Scope 1 and Scope 2 instead of either.
ScanLineBothScopes(lines, i, excerpts) ==
    IF ~Contains(lower(lines[i + 1]), Chars("scope")) THEN excerpts
    ELSE LET paragraph == Paragraph(lines, i)
             para_lower == lower(paragraph)
         IN  IF Len(strip(paragraph)) < MinParagraphLen THEN excerpts
             ELSE LET has_scope_1 == search(scope_patterns.scope_1, para_lower)
                      has_scope_2 == search(scope_patterns.scope_2, para_lower)
                      has_scope_3 == search(scope_patterns.scope_3, para_lower)
                  IN  IF ~(has_scope_1 /\ has_scope_2) THEN excerpts
                      ELSE LET label == determine_label_for_excerpt(paragraph)
                               excerpt == Prefix(strip(paragraph), MaxExcerptLen)
                           IN  IF Len(excerpt) > MinExcerptLen
                                  /\ ~is_duplicate(excerpt, excerpts)
                               THEN Append(excerpts,
                                           [text |-> excerpt,
                                            label |-> label,
                                            has_scope_1 |-> has_scope_1,
                                            has_scope_2 |-> has_scope_2,
                                            has_scope_3 |-> has_scope_3])
                               ELSE excerpts

\* ScanLine taking the excerpt from the anchor line alone, the label from the
\* paragraph.
ScanLineExcerptFromLine(lines, i, excerpts) ==
    IF ~Contains(lower(lines[i + 1]), Chars("scope")) THEN excerpts
    ELSE LET paragraph == Paragraph(lines, i)
             para_lower == lower(paragraph)
         IN  IF Len(strip(paragraph)) < MinParagraphLen THEN excerpts
             ELSE LET has_scope_1 == search(scope_patterns.scope_1, para_lower)
                      has_scope_2 == search(scope_patterns.scope_2, para_lower)
                      has_scope_3 == search(scope_patterns.scope_3, para_lower)
                  IN  IF ~(has_scope_1 \/ has_scope_2) THEN excerpts
                      ELSE LET label == determine_label_for_excerpt(paragraph)
                               excerpt == Prefix(strip(lines[i + 1]), MaxExcerptLen)
                           IN  IF Len(excerpt) > MinExcerptLen
                                  /\ ~is_duplicate(excerpt, excerpts)
                               THEN Append(excerpts,
                                           [text |-> excerpt,
                                            label |-> label,
                                            has_scope_1 |-> has_scope_1,
                                            has_scope_2 |-> has_scope_2,
                                            has_scope_3 |-> has_scope_3])
                               ELSE excerpts

\* One iteration of the loop of find_scope_excerpts, for the line at 0-based i:
\* the list of excerpts after it.
ScanLine(lines, i, excerpts) ==
    IF ~Contains(lower(lines[i + 1]), Chars("scope")) THEN excerpts
    ELSE LET paragraph == Paragraph(lines, i)
             para_lower == lower(paragraph)
         IN  IF Len(strip(paragraph)) < MinParagraphLen THEN excerpts
             ELSE LET has_scope_1 == search(scope_patterns.scope_1, para_lower)
                      has_scope_2 == search(scope_patterns.scope_2, para_lower)
                      has_scope_3 == search(scope_patterns.scope_3, para_lower)
                  IN  IF ~(has_scope_1 \/ has_scope_2) THEN excerpts
                      ELSE LET label == determine_label_for_excerpt(paragraph)
                               excerpt == Prefix(strip(paragraph), MaxExcerptLen)
                           IN  IF Len(excerpt) > MinExcerptLen
                                  /\ ~is_duplicate(excerpt, excerpts)
                               THEN Append(excerpts,
                                           [text |-> excerpt,
                                            label |-> label,
                                            has_scope_1 |-> has_scope_1,
                                            has_scope_2 |-> has_scope_2,
                                            has_scope_3 |-> has_scope_3])
                               ELSE excerpts

\* The excerpts after the loop has run over the lines 0 .. n-1.
RECURSIVE ScanLines(_, _)
ScanLines(lines, n) ==
    IF n = 0 THEN <<>> ELSE ScanLine(lines, n - 1, ScanLines(lines, n - 1))

\* DatasetCreator.find_scope_excerpts.
find_scope_excerpts(text) ==
    LET lines == split(text) IN ScanLines(lines, Len(lines))

\* None, the result of _find_generic_excerpt when no paragraph qualifies.
None == "None"

\* GenericQualifies accepting a paragraph of exactly 100 characters.
GenericQualifiesFrom100(paragraph) ==
    /\ \E kw \in GenericKeywords : Contains(lower(paragraph), kw)
    /\ Len(strip(paragraph)) >= GenericMinLen

\* Whether a paragraph of _find_generic_excerpt is returned.
GenericQualifies(paragraph) ==
    /\ \E kw \in GenericKeywords : Contains(lower(paragraph), kw)
    /\ Len(strip(paragraph)) > GenericMinLen

\* _find_generic_excerpt giving up at the first keyword paragraph when that
\* one is too short.
find_generic_excerpt_first_keyword(text) ==
    LET paragraphs == split(text)
        hits == {k \in 1..Len(paragraphs) :
                    \E kw \in GenericKeywords : Contains(lower(paragraphs[k]), kw)}
    IN  IF hits = {} THEN None
        ELSE LET k == CHOOSE h \in hits : \A g \in hits : h <= g
             IN  IF Len(strip(paragraphs[k])) > GenericMinLen
                 THEN Prefix(strip(paragraphs[k]), MaxExcerptLen)
                 ELSE None

\* DatasetCreator._find_generic_excerpt: the first qualifying paragraph.
find_generic_excerpt(text) ==
    LET paragraphs == split(text)
        hits == {k \in 1..Len(paragraphs) : GenericQualifies(paragraphs[k])}
    IN  IF hits = {} THEN None
        ELSE LET k == CHOOSE h \in hits : \A g \in hits : h <= g
             IN  Prefix(strip(paragraphs[k]), MaxExcerptLen)

-----------------------------------------------------------------------------
(* The report files create_dataset reads                                   *)

\* Longest generated report, in lines.
MaxLines == 6

\* Longest metadata table with more than one report.
MaxReports == 2

\* Most fragments concatenated into a text given to determine_label_for_excerpt.
MaxFragments == 2

\* A line of text: str followed by full stops up to n characters.
Pad(str, n) == [i \in 1..n |-> IF i <= Len(str) THEN SubSeq(str, i, i) ELSE "."]

\* The lines reports are made of, by the letter that names them in a path.
Line ==
    [X |-> Chars("We report Scope 1, Scope 2, and Scope 3 emissions. ")
               \o Chars("Scope 3 emissions totaled 10.2 million tCO2e."),
     a |-> Pad("Scope 1 emissions were 500 tCO2e", 34),
     y |-> Pad("Scope 1 emissions were 500 tCO2e", 99),
     z |-> Pad("Scope 1 emissions were 500 tCO2e", 100),
     K |-> Pad("Our scope-1, scope-2 and scope-3 totals are published", 125),
     O |-> Pad("Our Scope 1 emissions were 500 tCO2e", 125),
     d |-> Pad("Our scope 1 and 2 emissions are audited", 40),
     e |-> Pad("Totals for Scope 1 and 2 are in table 4", 40),
     n |-> Pad("The board met in March as usual", 34),
     b |-> Pad("Scope 2 emissions fell by half", 30),
     c |-> Pad("Scope 2 emissions fell by 20", 29),
     A |-> Pad("Our Scope 1 emissions were 500 tCO2e and Scope 2 emissions were 1,200 tCO2e this year", 125),
     B |-> Pad("We report Scope 1, Scope 2, and Scope 3 emissions. Scope 3 emissions totaled 10.2 million tCO2e", 125),
     C |-> Pad("We report Scope 1 and Scope 2 emissions. We plan to begin reporting Scope 3 emissions by 2026", 125),
     T |-> Pad("Scope 3 emissions totaled 900 tCO2e", 125),
     G |-> Pad("Our greenhouse gas inventory is audited every year", 101),
     H |-> Pad("Our greenhouse gas inventory is audited every year", 100),
     N |-> Pad("The board met in March as usual", 125),
     L |-> Pad("Climate risk is reviewed by the board", 520),
     R |-> Pad("Scope I and Scope II emissions fell", 125),
     U |-> Pad("SCOPE 2 EMISSIONS FELL", 34),
     W |-> Chars("   ") \o Pad("Scope 2 emissions fell", 28) \o Chars("   "),
     E |-> <<>>,
     S |-> Chars("Scope 2"),
     F |-> Pad("All three scopes are in our carbon footprint", 125)]

\* The paths of the generated reports: every word of 1..n letters a and n.
RECURSIVE ShortPaths(_)
ShortPaths(n) ==
    IF n = 0 THEN {}
    ELSE {"a", "n"} \cup ShortPaths(n - 1)
         \cup {w \o l : w \in ShortPaths(n - 1), l \in {"a", "n"}}

\* The paths of the reports written out line by line.
ListedPaths ==
    {"B", "C", "A", "G", "H", "GH", "HG", "L", "T", "TN", "NT", "R", "F", "AF",
     "AB", "AC", "BC", "CB", "AT", "NAAAB", "UUU", "WWW", "aWa", "aUa", "E",
     "EaaaE", "ANANANA", "N", "NNNNAAA", "aab", "aac", "aba", "NNNT", "S",
     "aaS", "NNNNB", "ABC", "RRR", "TNNNNAAA", "X", "nXn", "nnnnXnnnn",
     "NdneNNNN", "NNdeNNN", "NNdneNN", "y", "z", "EzE", "nnnnannnn",
     "K", "O", "LB", "ALB", "BLC", "ALC"}

\* A path of the metadata table at which no file exists.
MissingPath == "missing.txt"

\* The paths at which a text file exists.
ReadablePaths == ShortPaths(MaxLines) \cup ListedPaths

\* '\n'.join of the lines the letters of a path name.
RECURSIVE FileText(_, _)
FileText(path, n) ==
    IF n = 0 THEN <<>>
    ELSE IF n = 1 THEN Line[SubSeq(path, 1, 1)]
    ELSE FileText(path, n - 1) \o <<"\n">> \o Line[SubSeq(path, n, n)]

\* f.read() of the file at a readable path.
Files == [path \in ReadablePaths |-> FileText(path, Len(path))]

\* A path at which a file exists that is not valid UTF-8: f.read() raises
\* UnicodeDecodeError.
UnreadablePath == "binary.txt"

\* The value pd.read_csv gives an empty field of the metadata CSV.
NaN == "nan"

\* os.path.exists(text_path) for a text_path that is a string.
exists(path) == path \in ReadablePaths \cup {UnreadablePath}

\* os.path.exists(text_path) raises TypeError: text_path is NaN, a float.
exists_raises(path) == path = NaN

\* open(text_path, 'r', encoding='utf-8') and f.read() return the text.
readable(path) == path \in ReadablePaths

\* self.find_scope_excerpts(text) for the text of each file, computed once.
scope_excerpts_of == [path \in ReadablePaths |-> find_scope_excerpts(Files[path])]

\* self._find_generic_excerpt(text) for the text of each file, computed once.
generic_excerpt_of == [path \in ReadablePaths |-> find_generic_excerpt(Files[path])]

-----------------------------------------------------------------------------
(* create_dataset                                                          *)

\* The metadata rows of the model: company, exchange, year, text_path.
MetadataRow(company, path) ==
    [company |-> company,
     exchange |-> IF company = "Acme" THEN "NYSE" ELSE "LSE",
     year |-> IF company = "Acme" THEN 2023 ELSE 2022,
     text_path |-> path]

\* The paths used in metadata tables of more than one report.
BatchPaths == {"B", "G", "N", "anaaaa", MissingPath}

\* The rows of metadata tables of more than one report: two companies at the
\* paths of BatchPaths, a row whose file cannot be decoded, a row without a
\* company and a row without a text_path.
BatchRows ==
    {MetadataRow(company, path) : company \in {"Acme", "Birch"}, path \in BatchPaths}
    \cup {MetadataRow("Acme", UnreadablePath), MetadataRow(NaN, "B"),
          MetadataRow("Acme", NaN)}

\* The metadata tables: one report at any path, or up to MaxReports rows of
\* BatchRows, or no report at all.
RECURSIVE Tables(_)
Tables(n) ==
    IF n = 0 THEN {<<>>}
    ELSE Tables(n - 1)
         \cup {Append(t, row) :
                  t \in {u \in Tables(n - 1) : Len(u) = n - 1}, row \in BatchRows}

MetadataTables ==
    {<<MetadataRow("Acme", path)>> : path \in ReadablePaths \cup {MissingPath}}
    \cup Tables(MaxReports)

\* probe while create_dataset runs: no text was handed to the labeller.
NoProbe == [text |-> <<>>, pending |-> FALSE, label |-> <<>>]

\* A row of dataset_rows.
DatasetRow(row, text, label) ==
    [company_name |-> row.company,
     exchange |-> row.exchange,
     year |-> row.year,
     text_excerpt |-> text,
     label |-> label]

\* excerpts[:3] with the slice forgotten.
AllExcerpts(excerpts) == excerpts

\* excerpts[:3] taking the last three excerpts instead of the first three.
LastExcerpts(excerpts) ==
    SubSeq(excerpts, Max(1, Len(excerpts) - MaxExcerptsPerReport + 1), Len(excerpts))

\* excerpts[:3].
FirstExcerpts(excerpts) ==
    SubSeq(excerpts, 1, Min(Len(excerpts), MaxExcerptsPerReport))

\* ReportRows with the generic excerpt labelled by determine_label_for_excerpt
\* instead of 0.
ReportRowsGenericLabelled(row) ==
    LET excerpts == scope_excerpts_of[row.text_path]
        generic_text == generic_excerpt_of[row.text_path]
    IN  IF excerpts = <<>>
        THEN IF generic_text # None
             THEN <<DatasetRow(row, generic_text,
                               determine_label_for_excerpt(generic_text))>>
             ELSE <<>>
        ELSE [k \in 1..Len(FirstExcerpts(excerpts)) |->
                 DatasetRow(row, FirstExcerpts(excerpts)[k].text,
                            FirstExcerpts(excerpts)[k].label)]

\* The rows one loop iteration appends for a metadata row whose file was read.
ReportRows(row) ==
    LET excerpts == scope_excerpts_of[row.text_path]
        generic_text == generic_excerpt_of[row.text_path]
    IN  IF excerpts = <<>>
        THEN IF generic_text # None
             THEN <<DatasetRow(row, generic_text, 0)>>
             ELSE <<>>
        ELSE [k \in 1..Len(FirstExcerpts(excerpts)) |->
                 DatasetRow(row, FirstExcerpts(excerpts)[k].text,
                            FirstExcerpts(excerpts)[k].label)]

\* What the loop iteration knows of each row it appends: the report, whether
\* the row is a scope excerpt or the generic one, and excerpt_data's flags.
ReportEmitted(row, report) ==
    LET excerpts == scope_excerpts_of[row.text_path]
        generic_text == generic_excerpt_of[row.text_path]
    IN  IF excerpts = <<>>
        THEN IF generic_text # None
             THEN <<[report |-> report, source |-> "generic",
                     has_scope_1 |-> FALSE, has_scope_2 |-> FALSE,
                     has_scope_3 |-> FALSE]>>
             ELSE <<>>
        ELSE [k \in 1..Len(FirstExcerpts(excerpts)) |->
                 [report |-> report, source |-> "scope",
                  has_scope_1 |-> FirstExcerpts(excerpts)[k].has_scope_1,
                  has_scope_2 |-> FirstExcerpts(excerpts)[k].has_scope_2,
                  has_scope_3 |-> FirstExcerpts(excerpts)[k].has_scope_3]]

Init ==
    /\ metadata \in MetadataTables
    /\ idx = 0
    /\ dataset_rows = <<>>
    /\ emitted = <<>>
    /\ pc = "loop"
    /\ df = <<>>
    /\ warned = FALSE
    /\ probe = NoProbe
    /\ metadata_found \in BOOLEAN
    /\ ~metadata_found => metadata = <<>>
    /\ dataset_csv = <<>>

\* SkipMissingReport leaving the loop instead of continuing.
SkipMissingReportAborting ==
    /\ pc = "loop"
    /\ idx < Len(metadata)
    /\ ~exists_raises(metadata[idx + 1].text_path)
    /\ ~exists(metadata[idx + 1].text_path)
    /\ idx' = Len(metadata)
    /\ UNCHANGED <<metadata, dataset_rows, emitted, pc, df, warned, probe,
                 metadata_found, dataset_csv>>

\* The loop iteration for a row whose text file does not exist: continue.
SkipMissingReport ==
    /\ pc = "loop"
    /\ idx < Len(metadata)
    /\ ~exists_raises(metadata[idx + 1].text_path)
    /\ ~exists(metadata[idx + 1].text_path)
    /\ idx' = idx + 1
    /\ UNCHANGED <<metadata, dataset_rows, emitted, pc, df, warned, probe,
                 metadata_found, dataset_csv>>

\* ProcessReport with the list of kept excerpts shared between reports: a row
\* is dropped when its first 200 characters equal those of a row collected
\* for an earlier report.
ProcessReportSharedExcerpts ==
    /\ pc = "loop"
    /\ idx < Len(metadata)
    /\ exists(metadata[idx + 1].text_path)
    /\ readable(metadata[idx + 1].text_path)
    /\ LET rows == ReportRows(metadata[idx + 1])
           info == ReportEmitted(metadata[idx + 1], idx)
           fresh == {k \in 1..Len(rows) :
                        \A j \in 1..Len(dataset_rows) :
                            Prefix(rows[k].text_excerpt, DedupPrefixLen)
                                # Prefix(dataset_rows[j].text_excerpt, DedupPrefixLen)}
           pick(q) == CHOOSE k \in fresh : Cardinality({j \in fresh : j < k}) = q - 1
       IN  /\ dataset_rows' =
                  dataset_rows \o [q \in 1..Cardinality(fresh) |-> rows[pick(q)]]
           /\ emitted' = emitted \o [q \in 1..Cardinality(fresh) |-> info[pick(q)]]
    /\ idx' = idx + 1
    /\ UNCHANGED <<metadata, pc, df, warned, probe,
                 metadata_found, dataset_csv>>

\* ProcessReport with the cap of three rows counted over the whole table
\* instead of per report.
ProcessReportSharedCap ==
    /\ pc = "loop"
    /\ idx < Len(metadata)
    /\ exists(metadata[idx + 1].text_path)
    /\ readable(metadata[idx + 1].text_path)
    /\ LET rows == ReportRows(metadata[idx + 1])
           info == ReportEmitted(metadata[idx + 1], idx)
           room == Max(0, MaxExcerptsPerReport - Len(dataset_rows))
       IN  /\ dataset_rows' = dataset_rows \o SubSeq(rows, 1, Min(Len(rows), room))
           /\ emitted' = emitted \o SubSeq(info, 1, Min(Len(info), room))
    /\ idx' = idx + 1
    /\ UNCHANGED <<metadata, pc, df, warned, probe,
                 metadata_found, dataset_csv>>

\* ProcessReport putting the rows of the report before the rows collected so
\* far.
ProcessReportPrepending ==
    /\ pc = "loop"
    /\ idx < Len(metadata)
    /\ exists(metadata[idx + 1].text_path)
    /\ readable(metadata[idx + 1].text_path)
    /\ dataset_rows' = ReportRows(metadata[idx + 1]) \o dataset_rows
    /\ emitted' = ReportEmitted(metadata[idx + 1], idx) \o emitted
    /\ idx' = idx + 1
    /\ UNCHANGED <<metadata, pc, df, warned, probe,
                 metadata_found, dataset_csv>>

\* The loop iteration for a row whose text file exists: the scope excerpts
\* (at most three), or else the generic excerpt, or else nothing.
ProcessReport ==
    /\ pc = "loop"
    /\ idx < Len(metadata)
    /\ exists(metadata[idx + 1].text_path)
    /\ readable(metadata[idx + 1].text_path)
    /\ dataset_rows' = dataset_rows \o ReportRows(metadata[idx + 1])
    /\ emitted' = emitted \o ReportEmitted(metadata[idx + 1], idx)
    /\ idx' = idx + 1
    /\ UNCHANGED <<metadata, pc, df, warned, probe,
                 metadata_found, dataset_csv>>

\* The loop iteration for a row whose text_path is NaN: os.path.exists raises
\* TypeError, which create_dataset and main let through to the handler of
\* __main__; no DataFrame is returned.
ExistsRaises ==
    /\ pc = "loop"
    /\ idx < Len(metadata)
    /\ exists_raises(metadata[idx + 1].text_path)
    /\ pc' = "raised"
    /\ UNCHANGED <<metadata, idx, dataset_rows, emitted, df, warned, probe,
                 metadata_found, dataset_csv>>

\* The loop iteration for a row whose file exists and cannot be decoded:
\* f.read() raises, and the exception leaves create_dataset the same way.
ReadRaises ==
    /\ pc = "loop"
    /\ idx < Len(metadata)
    /\ exists(metadata[idx + 1].text_path)
    /\ ~readable(metadata[idx + 1].text_path)
    /\ pc' = "raised"
    /\ UNCHANGED <<metadata, idx, dataset_rows, emitted, df, warned, probe,
                 metadata_found, dataset_csv>>

\* FinishDataset returning an empty table when no row is labelled 1.
FinishDatasetSingleClassDropped ==
    /\ pc = "loop"
    /\ metadata_found
    /\ idx = Len(metadata)
    /\ warned' = (dataset_rows # <<>>
                  /\ \A k \in 1..Len(dataset_rows) : dataset_rows[k].label # 1)
    /\ df' = IF warned' THEN <<>> ELSE dataset_rows
    /\ pc' = "done"
    /\ UNCHANGED <<metadata, idx, dataset_rows, emitted, probe,
                 metadata_found, dataset_csv>>

\* After the loop: the DataFrame is returned, with the warning when it has
\* rows and none is labelled 1.
FinishDataset ==
    /\ pc = "loop"
    /\ metadata_found
    /\ idx = Len(metadata)
    /\ df' = dataset_rows
    /\ warned' = (dataset_rows # <<>>
                  /\ \A k \in 1..Len(dataset_rows) : dataset_rows[k].label # 1)
    /\ pc' = "done"
    /\ UNCHANGED <<metadata, idx, dataset_rows, emitted, probe,
                 metadata_found, dataset_csv>>

\* create_dataset when the metadata file does not exist: an empty table is
\* returned before anything is read.
MetadataNotFound ==
    /\ pc = "loop"
    /\ ~metadata_found
    /\ df' = <<>>
    /\ pc' = "done"
    /\ UNCHANGED <<metadata, idx, dataset_rows, emitted, warned, probe,
                   metadata_found, dataset_csv>>

\* save_dataset writing the file whatever the table.
save_dataset_unguarded(table, file) == <<table>>

\* save_dataset(df): the output file after the call. Nothing is written for
\* an empty table; otherwise the five columns of the table are written.
save_dataset(table, file) == IF table = <<>> THEN file ELSE <<table>>

\* A call of save_dataset with the table create_dataset returned: the call of
\* main when the table has rows, a call by another caller when it has none.
SaveDataset ==
    /\ pc = "done"
    /\ probe = NoProbe
    /\ dataset_csv' = save_dataset(df, dataset_csv)
    /\ pc' = "saved"
    /\ UNCHANGED <<metadata, idx, dataset_rows, emitted, df, warned, probe,
                   metadata_found>>

\* main when create_dataset returned an empty table: save_dataset is not
\* called, the failure is printed.
MainNoData ==
    /\ pc = "done"
    /\ probe = NoProbe
    /\ df = <<>>
    /\ pc' = "failed"
    /\ UNCHANGED <<metadata, idx, dataset_rows, emitted, df, warned, probe,
                   metadata_found, dataset_csv>>

Next ==
    \/ MetadataNotFound
    \/ SkipMissingReport
    \/ ExistsRaises
    \/ ReadRaises
    \/ ProcessReport
    \/ FinishDataset
    \/ SaveDataset
    \/ MainNoData

Spec == Init /\ [][Next]_vars

-----------------------------------------------------------------------------
(* determine_label_for_excerpt applied to texts of its own                 *)

\* The pieces the probed texts are made of.
Fragments ==
    <<"We report Scope 3 ", "scope 3 emissions were 5 ", "Scope 1, 2 and 3 ",
      "all three scopes ", "We plan ", "by 2027 ", "scope 31 ", "SCOPE 3\n",
      "9 tCO2e ", "not yet ">>

\* Every concatenation of at most n fragments, the empty string included.
RECURSIVE FragmentTexts(_)
FragmentTexts(n) ==
    IF n = 0 THEN {<<>>}
    ELSE FragmentTexts(n - 1)
         \cup {t \o Chars(Fragments[k]) :
                  t \in FragmentTexts(n - 1), k \in 1..Len(Fragments)}

InitLabel ==
    /\ metadata = <<>>
    /\ idx = 0
    /\ dataset_rows = <<>>
    /\ emitted = <<>>
    /\ pc = "done"
    /\ df = <<>>
    /\ warned = FALSE
    /\ \E t \in FragmentTexts(MaxFragments) :
           probe = [text |-> t, pending |-> TRUE, label |-> <<>>]
    /\ metadata_found = TRUE
    /\ dataset_csv = <<>>

\* One call of determine_label_for_excerpt.
ClassifyProbe ==
    /\ probe.pending
    /\ pc = "done"
    /\ probe' = [probe EXCEPT !.pending = FALSE,
                              !.label = <<determine_label_for_excerpt(probe.text)>>]
    /\ UNCHANGED <<metadata, idx, dataset_rows, emitted, pc, df, warned,
                 metadata_found, dataset_csv>>

\* create_dataset on the metadata tables, and the labeller on the probed texts.
NextLabel == Next \/ ClassifyProbe

SpecLabel == (Init \/ InitLabel) /\ [][NextLabel]_vars

-----------------------------------------------------------------------------
(* Properties                                                              *)

\* The positions in dataset_rows of the rows collected for report r (0-based).
RowsOf(r) == {k \in 1..Len(emitted) : emitted[k].report = r}

\* The reports whose loop iteration has run and whose file was read.
ReadReports == {r \in 0..(idx - 1) : readable(metadata[r + 1].text_path)}

\* The first 200 characters of a text.
First200(t) == SubSeq(t, 1, IF Len(t) < 200 THEN Len(t) ELSE 200)

\* C1: every row of the output table, scope excerpt or generic excerpt, has a
\* text_excerpt of at least 1 and at most 500 characters.
C1_LengthBound ==
    /\ Len(emitted) = Len(dataset_rows)
    /\ \A k \in 1..Len(dataset_rows) :
           /\ Len(dataset_rows[k].text_excerpt) >= 1
           /\ Len(dataset_rows[k].text_excerpt) <= 500
    /\ \A k \in 1..Len(df) :
           /\ Len(df[k].text_excerpt) >= 1
           /\ Len(df[k].text_excerpt) <= 500

\* C1 witness: a scope excerpt cut to exactly 500 characters from a paragraph
\* that was longer.
C1_Witness ==
    \E k \in 1..Len(dataset_rows) :
        /\ emitted[k].source = "scope"
        /\ Len(dataset_rows[k].text_excerpt) = 500
        /\ Len(Files[metadata[emitted[k].report + 1].text_path]) > 500

\* C2: per report, at most 3 scope rows, at most 1 generic row, a generic row
\* only when there is no scope row, and never more than 3 rows.
C2_PerReportCap ==
    \A r \in 0..(Len(metadata) - 1) :
        LET scope == {k \in RowsOf(r) : emitted[k].source = "scope"}
            generic == {k \in RowsOf(r) : emitted[k].source = "generic"}
        IN  /\ Cardinality(scope) <= 3
            /\ Cardinality(generic) <= 1
            /\ generic # {} => scope = {}
            /\ generic # {} => scope_excerpts_of[metadata[r + 1].text_path] = <<>>
            /\ Cardinality(RowsOf(r)) <= 3

\* C2 witness: a report with more than 3 kept excerpts, of which 3 were
\* written.
C2_Witness ==
    \E r \in ReadReports :
        /\ Len(scope_excerpts_of[metadata[r + 1].text_path]) > 3
        /\ Cardinality(RowsOf(r)) = 3

\* C3: a row labelled 1 has its Scope 3 flag set; a scope row without the
\* Scope 3 flag is labelled 0.
C3_Scope3Necessity ==
    \A k \in 1..Len(dataset_rows) :
        dataset_rows[k].label = 1 =>
            emitted[k].source = "scope" /\ emitted[k].has_scope_3

\* C3 witness: a scope row without Scope 3 whose text matches a
\* reporting-evidence pattern ("all three scopes") and is labelled 0.
C3_Witness ==
    \E k \in 1..Len(dataset_rows) :
        /\ emitted[k].source = "scope"
        /\ ~emitted[k].has_scope_3
        /\ dataset_rows[k].label = 0
        /\ metadata[emitted[k].report + 1].text_path = "AF"
        /\ is_reporting(lower(dataset_rows[k].text_excerpt))

\* C4: a row whose text matches a future-plan pattern is labelled 0.  Each
\* row is examined in the state after the loop iteration that appended it.
C4_FutureSuppression ==
    \A k \in RowsOf(idx - 1) :
        is_future(lower(dataset_rows[k].text_excerpt)) => dataset_rows[k].label = 0

\* C4 witness: a row with the Scope 3 flag whose text matches both a
\* reporting-evidence and a future-plan pattern, labelled 0.
C4_Witness ==
    \E k \in RowsOf(idx - 1) :
        /\ emitted[k].has_scope_3
        /\ dataset_rows[k].label = 0
        /\ is_future(lower(dataset_rows[k].text_excerpt))
        /\ is_reporting(lower(dataset_rows[k].text_excerpt))

\* C5: determine_label_for_excerpt returns 1 exactly when the Scope 3 pattern
\* matches, a reporting-evidence pattern matches and no future-plan pattern
\* matches, and 0 otherwise, the empty text included; every label of the
\* output table is 0 or 1.
C5_LabelContract ==
    /\ \A k \in 1..Len(dataset_rows) : dataset_rows[k].label \in {0, 1}
    /\ probe.label # <<>> =>
           LET text_lower == lower(probe.text)
           IN  /\ probe.label[1] \in {0, 1}
               /\ probe.label[1] = 1 <=>
                      /\ search(scope_patterns.scope_3, text_lower)
                      /\ \E k \in 1..Len(reporting_phrases) :
                             search(reporting_phrases[k], text_lower)
                      /\ ~\E k \in 1..Len(future_phrases) :
                             search(future_phrases[k], text_lower)

\* C5 witness: a probed text labelled 1.
C5_Witness == probe.label = <<1>>

\* C6: two rows of the same report never have the same first 200 characters.
C6_Dedup ==
    \A r \in 0..(Len(metadata) - 1) :
        \A k1, k2 \in RowsOf(r) :
            k1 # k2 =>
                First200(dataset_rows[k1].text_excerpt)
                    # First200(dataset_rows[k2].text_excerpt)

\* The anchor lines (0-based) of a file whose paragraph passes the length
\* test and mentions Scope 1 or Scope 2.
SurvivingAnchors(path) ==
    LET lines == split(Files[path])
    IN  {i \in 0..(Len(lines) - 1) :
            /\ Contains(lower(lines[i + 1]), Chars("scope"))
            /\ Len(strip(Paragraph(lines, i))) >= 100
            /\ \/ search(scope_patterns.scope_1, lower(Paragraph(lines, i)))
               \/ search(scope_patterns.scope_2, lower(Paragraph(lines, i)))}

\* C6 witness: a report with at least two rows, and more surviving paragraphs
\* than kept excerpts: some paragraph was dropped as a duplicate.
C6_Witness ==
    \E r \in ReadReports :
        /\ Cardinality(RowsOf(r)) >= 2
        /\ Cardinality(SurvivingAnchors(metadata[r + 1].text_path))
               > Len(scope_excerpts_of[metadata[r + 1].text_path])

\* C7: every scope row has the Scope 1 or the Scope 2 flag.
C7_ScopeGate ==
    \A k \in 1..Len(emitted) :
        emitted[k].source = "scope" =>
            emitted[k].has_scope_1 \/ emitted[k].has_scope_2

\* The anchor lines (0-based) of a file whose paragraph passes the length
\* test and mentions Scope 3 but neither Scope 1 nor Scope 2.
Scope3OnlyAnchors(path) ==
    LET lines == split(Files[path])
    IN  {i \in 0..(Len(lines) - 1) :
            /\ Contains(lower(lines[i + 1]), Chars("scope"))
            /\ Len(strip(Paragraph(lines, i))) >= 100
            /\ search(scope_patterns.scope_3, lower(Paragraph(lines, i)))
            /\ ~search(scope_patterns.scope_1, lower(Paragraph(lines, i)))
            /\ ~search(scope_patterns.scope_2, lower(Paragraph(lines, i)))}

\* C7 witness: a report with scope rows one of whose paragraphs mentions only
\* Scope 3; that paragraph gave no row.
C7_Witness ==
    \E r \in ReadReports :
        /\ \E k \in RowsOf(r) : emitted[k].source = "scope"
        /\ Cardinality(RowsOf(r))
               = Len(scope_excerpts_of[metadata[r + 1].text_path])
        /\ Scope3OnlyAnchors(metadata[r + 1].text_path) # {}

\* The excerpts written for report r, in order: text, label, source, flags.
ExcerptsOf(r) ==
    LET first == CHOOSE k \in RowsOf(r) : \A j \in RowsOf(r) : k <= j
    IN  [q \in 1..Cardinality(RowsOf(r)) |->
            <<dataset_rows[first + q - 1].text_excerpt,
              dataset_rows[first + q - 1].label,
              emitted[first + q - 1].source,
              emitted[first + q - 1].has_scope_1,
              emitted[first + q - 1].has_scope_2,
              emitted[first + q - 1].has_scope_3>>]

\* C8: two reports of a table that have the same text give the same ordered
\* list of excerpts, whatever their positions in the table.
C8_Determinism ==
    \A r1, r2 \in ReadReports :
        Files[metadata[r1 + 1].text_path] = Files[metadata[r2 + 1].text_path]
            => ExcerptsOf(r1) = ExcerptsOf(r2)

\* C8 witness: the same text at two positions of the table, with rows.
C8_Witness ==
    \E r1, r2 \in ReadReports :
        /\ r1 < r2
        /\ metadata[r1 + 1].text_path = metadata[r2 + 1].text_path
        /\ RowsOf(r1) # {}
        /\ RowsOf(r2) # {}

\* The lines (1-based) of a file that are 100 characters or longer and
\* contain one of the generic keywords.
LinesOf100(path) ==
    LET lines == split(Files[path])
    IN  {i \in 1..Len(lines) :
            /\ Len(strip(lines[i])) >= 100
            /\ \E kw \in GenericKeywords : Contains(lower(lines[i]), kw)}

\* C9: when a report has no scope excerpt, its single row is the first line of
\* 100 characters or more that contains a generic keyword, cut to 500
\* characters and labelled 0.
C9_FallbackFrom100 ==
    \A r \in ReadReports :
        LET path == metadata[r + 1].text_path
            lines == split(Files[path])
        IN  (scope_excerpts_of[path] = <<>> /\ LinesOf100(path) # {}) =>
                LET i == CHOOSE h \in LinesOf100(path) :
                             \A g \in LinesOf100(path) : h <= g
                    whole == strip(lines[i])
                IN  \E k \in 1..Len(dataset_rows) :
                        /\ RowsOf(r) = {k}
                        /\ emitted[k].source = "generic"
                        /\ dataset_rows[k].label = 0
                        /\ dataset_rows[k].text_excerpt
                               = SubSeq(whole, 1, IF Len(whole) < 500
                                                  THEN Len(whole) ELSE 500)

HasFile(row) == exists(row.text_path)

\* The rows create_dataset collects for a table all of whose files are read.
RECURSIVE CollectedFrom(_)
CollectedFrom(table) ==
    IF table = <<>> THEN <<>>
    ELSE CollectedFrom(SubSeq(table, 1, Len(table) - 1))
             \o ReportRows(table[Len(table)])

\* C11: a metadata row whose text_path does not exist gives no row, and the
\* table returned is the one returned for the metadata without such rows.
C11_MissingSkipped ==
    /\ \A r \in 0..(idx - 1) :
           ~exists(metadata[r + 1].text_path) => RowsOf(r) = {}
    /\ pc = "done" => df = CollectedFrom(SelectSeq(metadata, HasFile))

\* C11 witness: create_dataset returned, with rows of a report that comes
\* after a missing one.
C11_Witness ==
    /\ pc = "done"
    /\ \E r1, r2 \in 0..(Len(metadata) - 1) :
           /\ r1 < r2
           /\ ~exists(metadata[r1 + 1].text_path)
           /\ \E k \in 1..Len(df) : emitted[k].report = r2

\* C12: a report whose file exists and cannot be read is skipped without a
\* row and the loop goes on: create_dataset never stops at such a report.
C12_UnreadableSkipped ==
    /\ \A r \in 0..(idx - 1) :
           (exists(metadata[r + 1].text_path)
                /\ ~readable(metadata[r + 1].text_path)) => RowsOf(r) = {}
    /\ ~(/\ pc = "raised"
         /\ exists(metadata[idx + 1].text_path)
         /\ ~readable(metadata[idx + 1].text_path))

\* A metadata row with an empty required field.
Malformed(row) == row.company = NaN \/ row.text_path = NaN

\* C13: a metadata row with a missing required field gives no row, and
\* create_dataset never stops at such a row.
C13_MalformedSkipped ==
    /\ \A r \in 0..(idx - 1) : Malformed(metadata[r + 1]) => RowsOf(r) = {}
    /\ ~(pc = "raised" /\ Malformed(metadata[idx + 1]))

\* C14: no row of the returned table has a missing value: company_name and
\* exchange are not NaN, the excerpt is not empty and the label is 0 or 1.
C14_NoMissingValues ==
    \A k \in 1..Len(df) :
        /\ df[k].company_name # NaN
        /\ df[k].exchange # NaN
        /\ Len(df[k].text_excerpt) >= 1
        /\ df[k].label \in {0, 1}

\* C15: when create_dataset returns and has collected rows none of which is
\* labelled 1, it has printed the warning and returns every collected row.
C15_SingleClassWarning ==
    (/\ pc = "done"
     /\ dataset_rows # <<>>
     /\ \A k \in 1..Len(dataset_rows) : dataset_rows[k].label = 0)
        => (warned /\ df = dataset_rows)

\* C15 witness: a returned table of two reports' rows, all labelled 0, with
\* the warning.
C15_Witness ==
    /\ pc = "done"
    /\ warned
    /\ \A k \in 1..Len(df) : df[k].label = 0
    /\ \E k1, k2 \in 1..Len(df) : emitted[k1].report # emitted[k2].report

\* The rows collected for report r, in the order they were appended.
CollectedFor(r) ==
    LET first == CHOOSE k \in RowsOf(r) : \A j \in RowsOf(r) : k <= j
    IN  [q \in 1..Cardinality(RowsOf(r)) |-> dataset_rows[first + q - 1]]

\* C16: the rows collected for a report are those its own metadata row and
\* text give, whatever was processed before it: nothing kept for one report
\* (kept excerpts, row count) affects another.
C16_DocumentIndependence ==
    \A r \in ReadReports : CollectedFor(r) = ReportRows(metadata[r + 1])

\* C16 witness: two reports with different texts are processed, the second
\* one after more than two rows were collected, and both have rows.
C16_Witness ==
    \E r1, r2 \in ReadReports :
        /\ r1 < r2
        /\ metadata[r1 + 1].text_path # metadata[r2 + 1].text_path
        /\ Cardinality(RowsOf(r1)) >= 3
        /\ RowsOf(r2) # {}

\* The lines (1-based) of a file that contain 'scope' in any case.
AnchorLines(path) ==
    LET lines == split(Files[path])
    IN  {i \in 1..Len(lines) : Contains(lower(lines[i]), Chars("scope"))}

\* Scenario A: the only line of the file that contains 'scope' is the
\* sentence of the scenario, and its paragraph has 100 characters or more.
ScenarioA(path) ==
    LET lines == split(Files[path])
    IN  /\ \E i \in 1..Len(lines) : lines[i] = Line.X
        /\ \E i \in 1..Len(lines) :
               /\ AnchorLines(path) = {i}
               /\ lines[i] = Line.X
               /\ Len(strip(Paragraph(lines, i - 1))) >= 100

\* The files of Scenario A, found once.
scenario_a_paths == {path \in ReadablePaths : ScenarioA(path)}

\* C17: a report of Scenario A gives exactly one row, a scope excerpt with
\* the Scope 3 flag and label 1.
C17_ScenarioA ==
    \A r \in ReadReports :
        metadata[r + 1].text_path \in scenario_a_paths =>
            \E k \in 1..Len(dataset_rows) :
                /\ RowsOf(r) = {k}
                /\ emitted[k].source = "scope"
                /\ emitted[k].has_scope_3
                /\ dataset_rows[k].label = 1

\* C17 witness: a report of Scenario A was processed.
C17_Witness ==
    \E r \in ReadReports :
        /\ metadata[r + 1].text_path \in scenario_a_paths
        /\ Len(split(Files[metadata[r + 1].text_path])) = 3

\* The excerpt find_scope_excerpts cuts for the anchor at line i (1-based).
WindowExcerpt(path, i) ==
    LET whole == strip(Paragraph(split(Files[path]), i - 1))
    IN  SubSeq(whole, 1, IF Len(whole) < 500 THEN Len(whole) ELSE 500)

\* Scenario E: the file has two anchor lines, next to each other or with one
\* line between them, both saying 'scope 1 and 2'; their paragraphs have 100
\* characters or more and differ, but not in their first 200 characters.
ScenarioE(path, i, j) ==
    LET lines == split(Files[path])
    IN  /\ i < j
        /\ j <= i + 2
        /\ AnchorLines(path) = {i, j}
        /\ Contains(lower(lines[i]), Chars("scope 1 and 2"))
        /\ Contains(lower(lines[j]), Chars("scope 1 and 2"))
        /\ Len(WindowExcerpt(path, i)) > 200
        /\ WindowExcerpt(path, i) # WindowExcerpt(path, j)
        /\ First200(WindowExcerpt(path, i)) = First200(WindowExcerpt(path, j))

\* The anchor pairs (1-based) that make a file one of Scenario E, found once.
scenario_e_of ==
    [path \in ReadablePaths |->
        {ij \in (1..Len(split(Files[path]))) \X (1..Len(split(Files[path]))) :
            ScenarioE(path, ij[1], ij[2])}]

\* C18: a report of Scenario E gives one row, the excerpt of the first anchor.
C18_ScenarioE ==
    \A r \in ReadReports :
        LET path == metadata[r + 1].text_path
        IN  \A ij \in scenario_e_of[path] :
                \E k \in 1..Len(dataset_rows) :
                    /\ RowsOf(r) = {k}
                    /\ emitted[k].source = "scope"
                    /\ dataset_rows[k].text_excerpt = WindowExcerpt(path, ij[1])

\* C18 witness: a report of Scenario E was processed, its anchors one line
\* apart.
C18_Witness ==
    \E r \in ReadReports :
        \E ij \in scenario_e_of[metadata[r + 1].text_path] : ij[2] = ij[1] + 2

\* The lines from max(0, i-3) up to, not including, min(len(lines), i+4),
\* joined with single spaces and trimmed, for the anchor at index i (0-based).
TrimmedWindow(lines, i) ==
    strip(join(lines, IF i < 3 THEN 0 ELSE i - 3,
                      IF i + 4 > Len(lines) THEN Len(lines) ELSE i + 4))

\* The anchors (0-based) of a file whose window has 100 trimmed characters or
\* more and mentions Scope 1 or Scope 2.
Candidates(path) ==
    LET lines == split(Files[path])
        anchors == AnchorLines(path)
    IN  {i \in 0..(Len(lines) - 1) :
            /\ (i + 1) \in anchors
            /\ LET para_lower == lower(TrimmedWindow(lines, i))
               IN  /\ Len(para_lower) >= 100
                   /\ \/ search(scope_patterns.scope_1, para_lower)
                      \/ search(scope_patterns.scope_2, para_lower)}

\* The first 500 characters of a text.
First500(t) == SubSeq(t, 1, IF Len(t) < 500 THEN Len(t) ELSE 500)

\* The trimmed candidate windows of a file, whole, in line order.
CandidateWindows(path) ==
    LET lines == split(Files[path])
        cands == Candidates(path)
        nth(q) == CHOOSE i \in cands : Cardinality({h \in cands : h < i}) = q - 1
    IN  [q \in 1..Cardinality(cands) |-> TrimmedWindow(lines, nth(q))]

\* The candidate windows of each file, computed once.
candidate_windows_of == [path \in ReadablePaths |-> CandidateWindows(path)]

\* The candidate texts of a file, in line order: the windows cut to 500
\* characters.
CandidateTexts(path) ==
    [q \in 1..Len(candidate_windows_of[path]) |->
        First500(candidate_windows_of[path][q])]

\* The candidate texts of each file, computed once.
candidate_texts_of == [path \in ReadablePaths |-> CandidateTexts(path)]

\* C19: the excerpts find_scope_excerpts keeps for a file are the windows of
\* lines containing 'scope', each made of the lines max(0, i-3) to
\* min(len(lines), i+4) exclusive joined with spaces, in line order; a window
\* of 100 trimmed characters or more is a candidate (kept, or the duplicate of
\* a kept one), a shorter one is not.
C19_Windowing ==
    \A r \in ReadReports :
        LET path == metadata[r + 1].text_path
            kept == scope_excerpts_of[path]
            windows == candidate_texts_of[path]
            first == [k \in 1..Len(kept) |->
                         CHOOSE q \in 1..Len(windows) :
                             /\ kept[k].text = windows[q]
                             /\ \A h \in 1..Len(windows) :
                                    kept[k].text = windows[h] => q <= h]
        IN  /\ \A k \in 1..Len(kept) :
                   \E q \in 1..Len(windows) : kept[k].text = windows[q]
            /\ \A q \in 1..Len(windows) :
                   \E k \in 1..Len(kept) :
                       First200(kept[k].text) = First200(windows[q])
            /\ \A k1, k2 \in 1..Len(kept) : k1 < k2 => first[k1] < first[k2]

\* C19 witness: a report whose only window has exactly 100 trimmed characters
\* gave a scope row.
C19_Witness ==
    \E r \in ReadReports :
        LET lines == split(Files[metadata[r + 1].text_path])
        IN  /\ Len(lines) = 3
            /\ Len(candidate_texts_of[metadata[r + 1].text_path]) = 1
            /\ Len(TrimmedWindow(lines, 1)) = 100
            /\ \E k \in RowsOf(r) : emitted[k].source = "scope"

\* The specified selection: walk the candidate texts from the k-th on, keep
\* one when its first 200 characters differ from those of every text kept,
\* and stop as soon as three are kept.
RECURSIVE SelectUntilThree(_, _, _)
SelectUntilThree(candidates, k, kept) ==
    IF k > Len(candidates) \/ Len(kept) = 3 THEN kept
    ELSE IF \E j \in 1..Len(kept) : First200(kept[j]) = First200(candidates[k])
    THEN SelectUntilThree(candidates, k + 1, kept)
    ELSE SelectUntilThree(candidates, k + 1, Append(kept, candidates[k]))

\* C20: the scope rows of a report are, in order, what the specified
\* selection gives: the first three kept candidates, or all when fewer.
C20_SelectionOrder ==
    \A r \in ReadReports :
        LET path == metadata[r + 1].text_path
            rows == CollectedFor(r)
        IN  scope_excerpts_of[path] # <<>> =>
                [k \in 1..Len(rows) |-> rows[k].text_excerpt]
                    = SelectUntilThree(candidate_texts_of[path], 1, <<>>)

\* C20 witness: a report with more than three kept excerpts gave three rows.
C20_Witness ==
    \E r \in ReadReports :
        /\ Len(scope_excerpts_of[metadata[r + 1].text_path]) > 3
        /\ Cardinality(RowsOf(r)) = 3

\* The anchors (0-based) of the candidate texts of each file, in line order.
candidate_anchors_of ==
    [path \in ReadablePaths |->
        LET cands == Candidates(path)
        IN  [q \in 1..Cardinality(cands) |->
                CHOOSE i \in cands : Cardinality({h \in cands : h < i}) = q - 1]]

\* The number of excerpts kept for a file whose text is one of two windows.
KeptAmong(path, q1, q2) ==
    Cardinality({k \in 1..Len(scope_excerpts_of[path]) :
                    scope_excerpts_of[path][k].text
                        \in {candidate_texts_of[path][q1], candidate_texts_of[path][q2]}})

ScopeForms ==
    [scope_1 |-> {Chars("scope 1 emissions"), Chars("scope i "), Chars("scope-1,")},
     scope_2 |-> {Chars("scope 2 emissions"), Chars("scope ii "), Chars("scope-2,")},
     scope_3 |-> {Chars("scope 3 emissions"), Chars("scope iii "), Chars("scope-3,")}]

\* A lowercased text contains one of the written forms of a scope.
HasForm(text_lower, scope) == \E form \in ScopeForms[scope] : Contains(text_lower, form)

\* The files with a candidate window, but for the Scope 1 or Scope 2 test, in
\* which a form of Scope 1 or Scope 2 is written.
FormPaths ==
    {path \in ReadablePaths :
        LET lines == split(Files[path])
        IN  \E i \in AnchorLines(path) :
                LET para_lower == lower(TrimmedWindow(lines, i - 1))
                IN  /\ Len(para_lower) >= 100
                    /\ \/ HasForm(para_lower, "scope_1")
                       \/ HasForm(para_lower, "scope_2")}

\* C22: a window in which a form of Scope 1 or Scope 2 is written passes the
\* Scope 1/2 test, so its report has a scope row; and a scope row whose text
\* has a form of scope n has the flag of scope n.
C22_DetectionForms ==
    /\ \A r \in ReadReports :
           metadata[r + 1].text_path \in FormPaths =>
               \E k \in RowsOf(r) : emitted[k].source = "scope"
    /\ \A k \in 1..Len(emitted) :
           emitted[k].source = "scope" =>
               LET text_lower == lower(dataset_rows[k].text_excerpt)
               IN  /\ HasForm(text_lower, "scope_1") => emitted[k].has_scope_1
                   /\ HasForm(text_lower, "scope_2") => emitted[k].has_scope_2
                   /\ HasForm(text_lower, "scope_3") => emitted[k].has_scope_3

\* The label determine_label_for_excerpt gives the whole window, neither
\* trimmed nor cut, of each candidate of each file.
window_labels_of ==
    [path \in ReadablePaths |->
        LET lines == split(Files[path])
            anchors == candidate_anchors_of[path]
        IN  [q \in 1..Len(anchors) |->
                determine_label_for_excerpt(
                    join(lines,
                         IF anchors[q] < 3 THEN 0 ELSE anchors[q] - 3,
                         IF anchors[q] + 4 > Len(lines) THEN Len(lines)
                         ELSE anchors[q] + 4))]]

\* The first candidate of a file whose text is a given excerpt.
FirstCandidate(path, text) ==
    CHOOSE q \in 1..Len(candidate_texts_of[path]) :
        /\ candidate_texts_of[path][q] = text
        /\ \A h \in 1..Len(candidate_texts_of[path]) :
               candidate_texts_of[path][h] = text => q <= h

\* C23: the label of a scope row is the label of the whole window it was cut
\* from, whatever lies after the 500th character.
C23_LabelFromWholeWindow ==
    \A k \in 1..Len(dataset_rows) :
        emitted[k].source = "scope" =>
            LET path == metadata[emitted[k].report + 1].text_path
            IN  dataset_rows[k].label
                    = window_labels_of[path][FirstCandidate(path, dataset_rows[k].text_excerpt)]

\* C23 witness: a scope row with label 1 whose 500 characters hold no Scope 3
\* mention: the window was longer and its reporting sentence came later.
C23_Witness ==
    \E k \in 1..Len(dataset_rows) :
        /\ emitted[k].source = "scope"
        /\ dataset_rows[k].label = 1
        /\ Len(dataset_rows[k].text_excerpt) = 500
        /\ ~Contains(lower(dataset_rows[k].text_excerpt), Chars("scope 3"))

\* Selection on whole windows: walk the trimmed windows from the k-th on and
\* keep one when it has more than 50 characters and its first 200 characters
\* differ from those of every window kept.
RECURSIVE SelectWhole(_, _, _)
SelectWhole(windows, k, kept) ==
    IF k > Len(windows) THEN kept
    ELSE IF /\ Len(windows[k]) > 50
            /\ \A j \in 1..Len(kept) : First200(kept[j]) # First200(windows[k])
    THEN SelectWhole(windows, k + 1, Append(kept, windows[k]))
    ELSE SelectWhole(windows, k + 1, kept)

\* C24: the excerpts kept for a file, cut to 500 characters before the length
\* test and the comparison of first 200 characters, are those selected on the
\* whole windows and cut to 500 characters at the end, in the same order.
C24_TruncationCommutes ==
    \A r \in ReadReports :
        LET path == metadata[r + 1].text_path
            kept == scope_excerpts_of[path]
            whole == SelectWhole(candidate_windows_of[path], 1, <<>>)
        IN  [k \in 1..Len(kept) |-> kept[k].text]
                = [k \in 1..Len(whole) |-> First500(whole[k])]

\* C24 witness: a report with two windows longer than 500 characters, of
\* which the second was dropped for its first 200 characters.
C24_Witness ==
    \E r \in ReadReports :
        LET windows == candidate_windows_of[metadata[r + 1].text_path]
        IN  /\ RowsOf(r) # {}
            /\ \E q1, q2 \in 1..Len(windows) :
                   /\ q1 < q2
                   /\ Len(windows[q1]) > 500
                   /\ Len(windows[q2]) > 500
                   /\ First200(windows[q1]) = First200(windows[q2])

\* C25: when the metadata file does not exist, create_dataset returns an
\* empty table and has read no report, and no output file is written
\* afterwards; save_dataset with an empty table writes nothing.
C25_MissingMetadata ==
    /\ (~metadata_found /\ pc # "loop") =>
           /\ df = <<>>
           /\ idx = 0
           /\ dataset_rows = <<>>
           /\ dataset_csv = <<>>
    /\ (pc \in {"saved", "failed"} /\ df = <<>>) => dataset_csv = <<>>
    /\ pc = "failed" => df = <<>>

\* C25 witness: the metadata file does not exist and save_dataset was called
\* with the empty table.
C25_Witness == ~metadata_found /\ pc = "saved"

\* C26: every scope row has at least 100 characters and every generic row at
\* least 101, none more than 500; and every candidate text has at least 100
\* characters, so that the test for more than 50 rejects none.
C26_MinimumLength ==
    /\ \A k \in 1..Len(dataset_rows) :
           /\ emitted[k].source = "scope" => Len(dataset_rows[k].text_excerpt) >= 100
           /\ emitted[k].source = "generic" => Len(dataset_rows[k].text_excerpt) >= 101
           /\ Len(dataset_rows[k].text_excerpt) <= 500
    /\ \A r \in ReadReports :
           \A q \in 1..Len(candidate_texts_of[metadata[r + 1].text_path]) :
               Len(candidate_texts_of[metadata[r + 1].text_path][q]) >= 100

\* C26 witness: a scope row of exactly 100 characters.
C26_Witness ==
    \E k \in 1..Len(dataset_rows) :
        emitted[k].source = "scope" /\ Len(dataset_rows[k].text_excerpt) = 100

\* The line (1-based) of a file that _find_generic_excerpt returns.
GenericLine(path) ==
    LET lines == split(Files[path])
    IN  CHOOSE i \in 1..Len(lines) :
            /\ GenericQualifies(lines[i])
            /\ \A h \in 1..(i - 1) : ~GenericQualifies(lines[h])

\* C27: the line a generic row was taken from matches neither the Scope 1
\* nor the Scope 2 pattern.
C27_GenericWithoutScope12 ==
    \A k \in 1..Len(dataset_rows) :
        emitted[k].source = "generic" =>
            LET path == metadata[emitted[k].report + 1].text_path
                line_lower == lower(split(Files[path])[GenericLine(path)])
            IN  /\ ~search(scope_patterns.scope_1, line_lower)
                /\ ~search(scope_patterns.scope_2, line_lower)

\* C27 witness: a generic row taken from a line that contains 'scope'.
C27_Witness ==
    \E k \in 1..Len(dataset_rows) :
        /\ emitted[k].source = "generic"
        /\ Contains(lower(dataset_rows[k].text_excerpt), Chars("scope"))

\* C28: a report none of whose windows passes the Scope 1/2 test (none has
\* 100 characters and a Scope 1 or Scope 2 mention) has no row with label 1:
\* it has no row, or one generic row with label 0.
C28_NoScope12NoPositive ==
    \A r \in ReadReports :
        candidate_windows_of[metadata[r + 1].text_path] = <<>> =>
            /\ Cardinality(RowsOf(r)) <= 1
            /\ \A k \in RowsOf(r) :
                   emitted[k].source = "generic" /\ dataset_rows[k].label = 0

\* C28 witness: a report whose only window reports a Scope 3 figure and has
\* no Scope 1 or Scope 2 mention; it has a generic row that says 'scope 3'.
C28_Witness ==
    \E r \in ReadReports :
        /\ candidate_windows_of[metadata[r + 1].text_path] = <<>>
        /\ Scope3OnlyAnchors(metadata[r + 1].text_path) # {}
        /\ \E k \in RowsOf(r) :
               Contains(lower(dataset_rows[k].text_excerpt), Chars("scope 3"))

\* C29 as stated: determine_label_for_excerpt applied to the text of a row
\* with label 1 returns 1.
C29_LabelOfEmittedText ==
    \A k \in 1..Len(dataset_rows) :
        dataset_rows[k].label = 1 =>
            determine_label_for_excerpt(dataset_rows[k].text_excerpt) = 1

\* C29, amended: determine_label_for_excerpt applied to the text of a row
\* with label 1 returns 1 when the text has fewer than 500 characters, that
\* is when the window was not cut.
C29_LabelOfUncutText ==
    \A k \in 1..Len(dataset_rows) :
        (dataset_rows[k].label = 1 /\ Len(dataset_rows[k].text_excerpt) < 500) =>
            determine_label_for_excerpt(dataset_rows[k].text_excerpt) = 1

\* C29 witness: a row with label 1 cut from a window of several lines that
\* has fewer than 500 characters.
C29_Witness ==
    \E k \in 1..Len(dataset_rows) :
        /\ dataset_rows[k].label = 1
        /\ Len(dataset_rows[k].text_excerpt) < 500
        /\ Len(split(Files[metadata[emitted[k].report + 1].text_path])) > 1

\* C30: the rows of the reports follow each other in the order of the
\* metadata rows, and every step keeps the rows collected so far and appends
\* only rows that carry the company, exchange and year of the metadata row of
\* the current iteration, in the order of their anchor lines.
C30_FramingAndOrder ==
    /\ [](\A k \in 1..(Len(emitted) - 1) : emitted[k].report <= emitted[k + 1].report)
    /\ [][LET n == Len(dataset_rows)
              m == Len(dataset_rows')
          IN  /\ n <= m
              /\ SubSeq(dataset_rows', 1, n) = dataset_rows
              /\ m > n => idx' = idx + 1
              /\ \A k \in (n + 1)..m :
                     /\ dataset_rows'[k].company_name = metadata[idx + 1].company
                     /\ dataset_rows'[k].exchange = metadata[idx + 1].exchange
                     /\ dataset_rows'[k].year = metadata[idx + 1].year
              /\ \A k \in (n + 1)..(m - 1) :
                     FirstCandidate(metadata[idx + 1].text_path,
                                    dataset_rows'[k].text_excerpt)
                         < FirstCandidate(metadata[idx + 1].text_path,
                                          dataset_rows'[k + 1].text_excerpt)]_vars

\* C30 witness: rows of two reports of different companies, the second report
\* with two rows or more.
C30_Witness ==
    /\ Len(dataset_rows) >= 3
    /\ emitted[1].report = 0
    /\ emitted[Len(emitted)].report = 1
    /\ emitted[Len(emitted) - 1].report = 1
    /\ dataset_rows[1].company_name # dataset_rows[Len(dataset_rows)].company_name

====
